---------------------------- MODULE Spec2Model ----------------------------
(***************************************************************************)
(* A model of the futures trading bot of src/bot.js: the main loop, one    *)
(* evaluation cycle (evaluateStrategy), the indicator functions it calls,  *)
(* placeOrder, and the clock-synchronisation timers.                       *)
(*                                                                         *)
(* Numbers.  JavaScript numbers are modelled as IEEE-754 doubles: every    *)
(* operation of the indicator functions, of evaluateStrategy and of        *)
(* adjustTrailingStop rounds its exact result to the nearest double, as    *)
(* the code does, and x/0, 0/0 and comparisons with NaN behave as they do  *)
(* in the code.  Computations whose values are integers (differences and   *)
(* sums of the integer prices of a candle window) are carried out on       *)
(* integers or on fractions <<n, d>>, where <<0, 0>> is NaN.               *)
(*                                                                         *)
(* The second source file, src/unnamed/part_000, is a later edit of the    *)
(* same script.  Its evaluateStrategy is closed at line 262 and the        *)
(* position-size check, the risk/reward gate and both entry branches       *)
(* (lines 265-303) are left at module level, where `await` is a syntax     *)
(* error: node rejects the file before any statement runs (LoadFails).     *)
(***************************************************************************)
EXTENDS Integers, Sequences, FiniteSets, TLC

VARIABLES
    script,            \* which source file node is started on
    mainPc,            \* position of the main async function (bot.js 244-264)
    cycle,             \* number of evaluateStrategy calls made so far
    evalPc,            \* cycle -> position of that evaluateStrategy call
    overCapAtStart,    \* the account's loss exceeded the cap when the last cycle started
    intents,           \* the placeOrder calls made by evaluateStrategy, in order
    orderRequests,     \* POST /fapi/v1/order requests sent to the exchange
    accountLoss,       \* loss realized today on the exchange account (environment)
    dailyLoss,         \* bot.js line 20
    serverTimeOffset,  \* bot.js line 19
    hourlyTimer,       \* the setInterval of bot.js line 250 is registered
    syncsInFlight,     \* timer-started synchronizeServerTime calls awaiting the exchange
    syncsNotifying,    \* such calls awaiting sendTelegramMessage in their catch block
    retryTimers,       \* pending 5 s setTimeout retries (bot.js line 69)
    tDirection,        \* trailing stop: direction of the open position
    tEntry,            \* trailing stop: entry price
    tStop,             \* trailing stop: current stop
    tPrevStop,         \* trailing stop: stop before the last update
    tPrice,            \* trailing stop: price of the last update
    tUpdates,          \* trailing stop: number of updates applied
    eSnapshot,         \* entry conditions: the indicator values they are given
    eLong,             \* entry conditions: the Long condition held
    eShort,            \* entry conditions: the Short condition held
    eEvaluated         \* entry conditions: they have been evaluated

botVars == <<script, mainPc, cycle, evalPc, overCapAtStart, intents, orderRequests,
             accountLoss, dailyLoss, serverTimeOffset, hourlyTimer,
             syncsInFlight, syncsNotifying, retryTimers>>

trailVars == <<tDirection, tEntry, tStop, tPrevStop, tPrice, tUpdates>>

entryVars == <<eSnapshot, eLong, eShort, eEvaluated>>

vars == <<botVars, trailVars, entryVars>>

-----------------------------------------------------------------------------
(* JavaScript numbers as fractions <<numerator, denominator>>, for the     *)
(* computations whose values are integers or NaN                           *)

Abs(x) == IF x < 0 THEN -x ELSE x

Sgn(x) == IF x < 0 THEN -1 ELSE IF x > 0 THEN 1 ELSE 0

RECURSIVE GCD(_, _)
GCD(a, b) == IF b = 0 THEN a ELSE GCD(b, a % b)

Norm(n, d) ==
    IF d = 0 THEN <<Sgn(n), 0>>
    ELSE LET s == IF d < 0 THEN -1 ELSE 1
             g == GCD(Abs(n), Abs(d))
         IN  <<(s * n) \div g, (s * d) \div g>>

NaN == <<0, 0>>

Num(k) == <<k, 1>>

IsNaN(a) == a = NaN

FNeg(a) == <<-a[1], a[2]>>

FAdd(a, b) ==
    IF a[2] = 0 /\ b[2] = 0
    THEN (IF a = b THEN a ELSE NaN)
    ELSE Norm(a[1] * b[2] + b[1] * a[2], a[2] * b[2])

FSub(a, b) == FAdd(a, FNeg(b))

FMul(a, b) == Norm(a[1] * b[1], a[2] * b[2])

\* a < b as JavaScript evaluates it: false when either side is NaN
FLt(a, b) ==
    /\ ~IsNaN(a)
    /\ ~IsNaN(b)
    /\ IF a[2] = 0 /\ b[2] = 0 THEN a[1] < b[1]
       ELSE a[1] * b[2] < b[1] * a[2]

FGt(a, b) == FLt(b, a)

-----------------------------------------------------------------------------
(* Naturals of any size, least significant limb first, no leading zero     *)
(* limb: the mantissa of a double and the exact sums, products and         *)
(* quotients it is rounded from do not fit a machine integer.  Limb(B, i)  *)
(* is 0 past the end of B.                                                 *)

LimbBase == 10 ^ 4

Limb(B, i) == IF 1 <= i /\ i <= Len(B) THEN B[i] ELSE 0

\* number of limbs of B without its leading zero limbs
TrimLen(B) ==
    IF \A i \in 1..Len(B) : B[i] = 0 THEN 0
    ELSE CHOOSE n \in 1..Len(B) : B[n] # 0 /\ \A i \in (n + 1)..Len(B) : B[i] = 0

\* B as a plain sequence, without its leading zero limbs
Trim(B) ==
    LET limbs == SubSeq(B, 1, Len(B))
    IN  SubSeq(limbs, 1, TrimLen(limbs))

BigFromNat(n) ==
    Trim(<<n % LimbBase, (n \div LimbBase) % LimbBase,
           n \div (LimbBase * LimbBase)>>)

\* A sequence C of integers stands for the sum of C[i] * LimbBase^(i-1).
\* Carry(C, i) is what the columns 1..i carry into column i + 1: negative
\* when they borrow.
RECURSIVE Carry(_, _)
Carry(C, i) ==
    IF i = 0 THEN 0 ELSE (Limb(C, i) + Carry(C, i - 1)) \div LimbBase

\* the limbs of the natural C stands for, for columns within the machine
\* integers
Limbs(C) ==
    Trim([i \in 1..(Len(C) + 2) |->
            (Limb(C, i) + Carry(C, i - 1)) % LimbBase])

\* B * k for a natural k with LimbBase * k within the machine integers
BigMulSmall(B, k) == Limbs([i \in 1..Len(B) |-> B[i] * k])

BigAdd(A, B) ==
    Limbs([i \in 1..(IF Len(A) < Len(B) THEN Len(B) ELSE Len(A)) |->
              Limb(A, i) + Limb(B, i)])

\* A - B for A >= B
BigSub(A, B) == Limbs([i \in 1..Len(A) |-> A[i] - Limb(B, i)])

\* column k of A * B: the sum of A[j] * B[k + 1 - j] over the limbs 1..i
\* of A
RECURSIVE ColumnSum(_, _, _, _)
ColumnSum(A, B, k, i) ==
    IF i = 0 THEN 0
    ELSE A[i] * Limb(B, k + 1 - i) + ColumnSum(A, B, k, i - 1)

\* A * B for an A of at most 20 limbs
BigMul(A, B) ==
    Limbs(SubSeq([k \in 1..(Len(A) + Len(B)) |-> ColumnSum(A, B, k, Len(A))],
                 1, Len(A) + Len(B)))

BigLess(A, B) ==
    IF Len(A) # Len(B) THEN Len(A) < Len(B)
    ELSE \E i \in 1..Len(A) :
            /\ A[i] < B[i]
            /\ \A j \in (i + 1)..Len(A) : A[j] = B[j]

-----------------------------------------------------------------------------
(* JavaScript numbers as IEEE-754 doubles.  A finite double is             *)
(* sgn * man * 2^exp with 2^(Precision-1) <= man < 2^Precision, or zero    *)
(* with man = <<>>; man is a natural in limbs.  Every operation computes   *)
(* the exact result and rounds it to the nearest double, ties to the even  *)
(* mantissa.  The exponent is not bounded and the sign of zero is not      *)
(* kept: no value of the indicators or of evaluateStrategy comes near the  *)
(* exponent range, and nothing is divided by a negative zero.              *)

Precision == 53

\* remainder of (the limbs i.. of A) over k, for a natural k with
\* LimbBase * k within the machine integers
RECURSIVE RemSmall(_, _, _)
RemSmall(A, k, i) ==
    IF i > Len(A) THEN 0
    ELSE (RemSmall(A, k, i + 1) * LimbBase + A[i]) % k

\* quotient and remainder of A over such a k
BigDivSmall(A, k) ==
    [q |-> Trim([i \in 1..Len(A) |->
                    (RemSmall(A, k, i + 1) * LimbBase + A[i]) \div k]),
     r |-> RemSmall(A, k, 1)]

BigOdd(A) == A # <<>> /\ A[1] % 2 = 1

\* 2^k
RECURSIVE BigPow2(_)
BigPow2(k) ==
    IF k <= 13 THEN <<2 ^ k>> ELSE BigMulSmall(BigPow2(k - 13), 2 ^ 13)

PowersOfTwo == [k \in 0..(2 * Precision + 22) |-> BigPow2(k)] @@ <<>>

\* number of binary digits of N # 0: between 13 and 14 for every limb
BitLength(N) ==
    CHOOSE len \in (13 * (Len(N) - 1))..(14 * Len(N)) :
        /\ BigLess(N, PowersOfTwo[len])
        /\ len = 0 \/ ~BigLess(N, PowersOfTwo[len - 1])

\* a quotient so far, and whether a division has left a remainder
DivPow2Join(qr, sticky) == [q |-> qr.q, sticky |-> sticky \/ qr.r # 0]

\* d.q \div 2^t, 13 binary digits at a time
RECURSIVE DivPow2From(_, _)
DivPow2From(d, t) ==
    IF t = 0 \/ d.q = <<>> THEN d
    ELSE IF t <= 13 THEN DivPow2Join(BigDivSmall(d.q, 2 ^ t), d.sticky)
    ELSE DivPow2From(DivPow2Join(BigDivSmall(d.q, 2 ^ 13), d.sticky), t - 13)

\* N \div 2^t, and whether the division left a remainder
DivPow2(N, t) == DivPow2From([q |-> N, sticky |-> FALSE], t)

Finite(sgn, man, exp) ==
    [kind |-> "finite", sgn |-> sgn, man |-> man, exp |-> exp]

DZero == Finite(1, <<>>, 0)

DNaN == [kind |-> "NaN", sgn |-> 1, man |-> <<>>, exp |-> 0]

DInfinity(sgn) == [kind |-> "Infinity", sgn |-> sgn, man |-> <<>>, exp |-> 0]

DIsNaN(x) == x.kind = "NaN"

DIsZero(x) == x.kind = "finite" /\ x.man = <<>>

\* -1, 0 or 1
DSign(x) == IF DIsZero(x) THEN 0 ELSE x.sgn

\* the mantissa after a rounding up: 2^Precision becomes 2^(Precision-1)
\* with the exponent one higher
Carried(sgn, man, exp) ==
    IF man = PowersOfTwo[Precision]
    THEN Finite(sgn, PowersOfTwo[Precision - 1], exp + 1)
    ELSE Finite(sgn, man, exp)

\* kept + half/2 + (a rest below the half), rounded to a natural, ties to
\* the even one
RoundKept(sgn, kept, half, rest, exp) ==
    IF half /\ (rest \/ BigOdd(kept))
    THEN Carried(sgn, BigAdd(kept, <<1>>), exp)
    ELSE Finite(sgn, kept, exp)

\* from N \div 2^(len - Precision - 1), which has Precision + 1 digits
RoundHalved(sgn, d, exp, sticky) ==
    RoundKept(sgn, BigDivSmall(d.q, 2).q, BigOdd(d.q), sticky \/ d.sticky, exp)

RoundAt(sgn, N, exp, sticky, len) ==
    IF len <= Precision
    THEN Finite(sgn, BigMul(N, PowersOfTwo[Precision - len]),
                exp - (Precision - len))
    ELSE RoundHalved(sgn, DivPow2(N, len - Precision - 1),
                     exp + (len - Precision), sticky)

\* The double nearest to sgn * (N + t) * 2^exp, where 0 < t < 1 when
\* sticky and t = 0 otherwise; N has more than Precision binary digits
\* when sticky.
RoundToDouble(sgn, N, exp, sticky) ==
    IF N = <<>> THEN DZero ELSE RoundAt(sgn, N, exp, sticky, BitLength(N))

DNeg(x) == [x EXCEPT !.sgn = -x.sgn]

\* x + y for finite x and y, from their mantissas at the lower exponent
AddAligned(x, y, X, Y, exp) ==
    IF x.sgn = y.sgn THEN RoundToDouble(x.sgn, BigAdd(X, Y), exp, FALSE)
    ELSE IF BigLess(X, Y) THEN RoundToDouble(y.sgn, BigSub(Y, X), exp, FALSE)
    ELSE RoundToDouble(x.sgn, BigSub(X, Y), exp, FALSE)

\* x + y for finite non-zero x and y with x.exp >= y.exp: y is less than a
\* quarter of the last place of x when the exponents are far enough apart
AddFinite(x, y) ==
    IF x.exp - y.exp > Precision + 1 THEN x
    ELSE AddAligned(x, y, BigMul(x.man, PowersOfTwo[x.exp - y.exp]), y.man,
                    y.exp)

DAdd(x, y) ==
    IF DIsNaN(x) \/ DIsNaN(y) THEN DNaN
    ELSE IF x.kind = "Infinity"
    THEN (IF y.kind = "Infinity" /\ y.sgn # x.sgn THEN DNaN ELSE x)
    ELSE IF y.kind = "Infinity" THEN y
    ELSE IF DIsZero(x) THEN y
    ELSE IF DIsZero(y) THEN x
    ELSE IF x.exp < y.exp THEN AddFinite(y, x)
    ELSE AddFinite(x, y)

DSub(x, y) == DAdd(x, DNeg(y))

DMul(x, y) ==
    IF DIsNaN(x) \/ DIsNaN(y) THEN DNaN
    ELSE IF x.kind = "Infinity" \/ y.kind = "Infinity"
    THEN (IF DIsZero(x) \/ DIsZero(y) THEN DNaN ELSE DInfinity(x.sgn * y.sgn))
    ELSE IF DIsZero(x) \/ DIsZero(y) THEN DZero
    ELSE RoundToDouble(x.sgn * y.sgn, BigMul(x.man, y.man), x.exp + y.exp, FALSE)

\* the largest limb q with B * q <= rem, downwards from an estimate that is
\* not below it
RECURSIVE QuotientLimb(_, _, _)
QuotientLimb(rem, B, estimate) ==
    IF BigLess(rem, BigMulSmall(B, estimate))
    THEN QuotientLimb(rem, B, estimate - 1)
    ELSE estimate

\* the estimate from the two top limbs of rem < B * LimbBase and the top
\* limb of B: close to the quotient limb when that top limb is large, as
\* it is for a mantissa
EstimateLimb(rem, B) ==
    IF Limb(rem, Len(B) + 1) >= B[Len(B)] THEN LimbBase - 1
    ELSE (Limb(rem, Len(B) + 1) * LimbBase + Limb(rem, Len(B))) \div B[Len(B)]

\* One more limb of a long division by B: st.q is the quotient of the
\* dividend limbs taken so far, least significant first, and st.r the
\* remainder; limb is the next lower limb of the dividend.
DivLimbBy(st, rem, B, limb) ==
    [q |-> <<limb>> \o st.q, r |-> BigSub(rem, BigMulSmall(B, limb))]

DivLimbOf(st, rem, B) ==
    DivLimbBy(st, rem, B, QuotientLimb(rem, B, EstimateLimb(rem, B)))

DivLimb(st, limb, B) == DivLimbOf(st, Trim(<<limb>> \o st.r), B)

\* the long division of A by B from the state st reached above limb i, down
\* to the lowest limb; nothing is left to divide when the remainder and
\* the limbs 1..i are zero
RECURSIVE DivDown(_, _, _, _)
DivDown(A, B, i, st) ==
    IF i = 0 THEN st
    ELSE IF st.r = <<>> /\ \A j \in 1..i : A[j] = 0
    THEN [q |-> [j \in 1..i |-> 0] \o st.q, r |-> <<>>]
    ELSE DivDown(A, B, i - 1, DivLimb(st, A[i], B))

DivTrim(qr) == [q |-> Trim(qr.q), r |-> qr.r]

\* quotient and remainder of A over B # 0
BigDivMod(A, B) == DivTrim(DivDown(A, B, Len(A), [q |-> <<>>, r |-> <<>>]))

RoundQuotient(sgn, qr, exp) == RoundToDouble(sgn, qr.q, exp, qr.r # <<>>)

DDiv(x, y) ==
    IF DIsNaN(x) \/ DIsNaN(y) THEN DNaN
    ELSE IF x.kind = "Infinity"
    THEN (IF y.kind = "Infinity" THEN DNaN ELSE DInfinity(x.sgn * y.sgn))
    ELSE IF y.kind = "Infinity" THEN DZero
    ELSE IF DIsZero(y)
    THEN (IF DIsZero(x) THEN DNaN ELSE DInfinity(x.sgn))
    ELSE IF DIsZero(x) THEN DZero
    ELSE RoundQuotient(x.sgn * y.sgn,
                       BigDivMod(BigMul(x.man, PowersOfTwo[Precision + 2]),
                                 y.man),
                       x.exp - y.exp - (Precision + 2))

\* the double of an integer within the machine integers
DInt(k) == RoundToDouble(Sgn(k), BigFromNat(Abs(k)), 0, FALSE)

\* the double a number has in the program: the nearest to the fraction
Double(f) ==
    IF f[2] = 0 THEN (IF f[1] = 0 THEN DNaN ELSE DInfinity(f[1]))
    ELSE IF f[2] = 1 THEN DInt(f[1])
    ELSE DDiv(DInt(f[1]), DInt(f[2]))

\* |x| < |y| for x and y neither zero nor NaN
MagnitudeLess(x, y) ==
    IF x.kind = "Infinity" THEN FALSE
    ELSE IF y.kind = "Infinity" THEN TRUE
    ELSE x.exp < y.exp \/ (x.exp = y.exp /\ BigLess(x.man, y.man))

DLt(x, y) ==
    /\ ~DIsNaN(x)
    /\ ~DIsNaN(y)
    /\ IF DSign(x) # DSign(y) THEN DSign(x) < DSign(y)
       ELSE IF DSign(x) = 0 THEN FALSE
       ELSE IF DSign(x) = 1 THEN MagnitudeLess(x, y)
       ELSE MagnitudeLess(y, x)

DLe(x, y) == ~DIsNaN(x) /\ ~DIsNaN(y) /\ ~DLt(y, x)

DGe(x, y) == DLe(y, x)

DGt(x, y) == DLt(y, x)

\* Math.max and Math.min of two numbers: NaN when either is NaN
DMax(x, y) == IF DIsNaN(x) \/ DIsNaN(y) THEN DNaN ELSE IF DLt(x, y) THEN y ELSE x

DMin(x, y) == IF DIsNaN(x) \/ DIsNaN(y) THEN DNaN ELSE IF DLt(y, x) THEN y ELSE x

-----------------------------------------------------------------------------
(* Configuration (bot.js 9-20) and the literals of evaluateStrategy.  The   *)
(* two constants evaluateStrategy computes with are the doubles of their   *)
(* literals; DAILY_RISK_CAP, which no code reads, is kept as a fraction.   *)

RISK_PER_TRADE == Double(<<1, 100>>)

MAX_LOT_SIZE == Double(<<1, 100>>)

DAILY_RISK_CAP == <<5, 100>>

AccountEquity == 200

KlinesLimit == 100

EmaShortPeriod == 9

EmaLongPeriod == 21

RsiPeriod == 14

AtrPeriod == 14

-----------------------------------------------------------------------------
(* Indicator calculations (bot.js 85-147).  A candle is a record           *)
(* [close, high, low] of integers; data is a sequence of candles, oldest   *)
(* first.  Sequences are indexed from 1 where the code indexes from 0.     *)
(* Differences, sums, maxima and minima of the integers of a window are    *)
(* integers far below 2^53, which double arithmetic computes exactly: the  *)
(* model computes them on integers and goes over to doubles at the first   *)
(* operation that can round (a division, the product of calculateEMA).     *)

\* data.map((candle) => candle.close), as a plain sequence
Closes(data) == SubSeq([i \in 1..Len(data) |-> data[i].close], 1, Len(data))

\* data[i] of a JavaScript array of numbers: undefined, which arithmetic
\* turns into NaN, past the end
At(prices, i) == IF i <= Len(prices) THEN Num(prices[i]) ELSE NaN

\* multiplier = 2 / (period + 1), a double
EmaMultiplier(period) == DDiv(DInt(2), DInt(period + 1))

\* The callback of the reduce of calculateEMA: what it puts at the end of
\* ema for price, the product and the sum each rounded to a double
EmaStep(ema, price, multiplier) ==
    IF Len(ema) = 0 THEN price
    ELSE DAdd(DMul(DSub(price, ema[Len(ema)]), multiplier), ema[Len(ema)])

\* data.reduce((ema, price, index) => ..., []) up to the price at hi, from
\* the array ema built so far, in order: up to the middle of what is left,
\* then the rest
RECURSIVE EmaReduce(_, _, _, _)
EmaReduce(prices, multiplier, ema, hi) ==
    IF Len(ema) >= hi THEN ema
    ELSE IF Len(ema) + 1 = hi
    THEN Append(ema, EmaStep(ema, DInt(prices[hi]), multiplier))
    ELSE EmaReduce(prices, multiplier,
                   EmaReduce(prices, multiplier, ema, (Len(ema) + hi) \div 2),
                   hi)

calculateEMA(prices, period) ==
    EmaReduce(prices, EmaMultiplier(period), <<>>, Len(prices))

\* array.pop() of a non-empty array
Pop(array) == array[Len(array)]

\* data[i] - data[i - 1] of the loop of calculateRSI
Change(prices, i) == FSub(At(prices, i), At(prices, i - 1))

\* what the loop adds to gains (side = 1) and to losses (side = 2) at index i
RsiTerm(prices, i, side) ==
    IF FGt(Change(prices, i), Num(0))
    THEN (IF side = 1 THEN Change(prices, i) ELSE Num(0))
    ELSE (IF side = 1 THEN Num(0) ELSE FNeg(Change(prices, i)))

\* gains (side = 1) or losses (side = 2) accumulated over the indices lo..hi
RECURSIVE RsiSum(_, _, _, _)
RsiSum(prices, side, lo, hi) ==
    IF lo > hi THEN Num(0)
    ELSE IF lo = hi THEN RsiTerm(prices, lo, side)
    ELSE FAdd(RsiSum(prices, side, lo, (lo + hi) \div 2),
              RsiSum(prices, side, (lo + hi) \div 2 + 1, hi))

\* lines 106-109, from the gains and the losses of the loop
RsiOf(avgGain, avgLoss) ==
    DSub(DInt(100), DDiv(DInt(100), DAdd(DInt(1), DDiv(avgGain, avgLoss))))

calculateRSI(prices, period) ==
    RsiOf(DDiv(Double(RsiSum(prices, 1, 2, period)), DInt(period)),
          DDiv(Double(RsiSum(prices, 2, 2, period)), DInt(period)))

Max2(a, b) == IF a < b THEN b ELSE a

TrueRange(data, i) ==
    IF i = 1 THEN 0
    ELSE Max2(data[i].high - data[i].low,
              Max2(Abs(data[i].high - data[i - 1].close),
                   Abs(data[i].low - data[i - 1].close)))

\* the sum of the true ranges of the candles lo..hi
RECURSIVE SumTrueRange(_, _, _)
SumTrueRange(data, lo, hi) ==
    IF lo > hi THEN 0
    ELSE IF lo = hi THEN TrueRange(data, lo)
    ELSE SumTrueRange(data, lo, (lo + hi) \div 2)
         + SumTrueRange(data, (lo + hi) \div 2 + 1, hi)

\* tr.slice(period) drops the first `period` true ranges; the sum of the
\* rest is divided by period
calculateATR(data, period) ==
    DDiv(DInt(SumTrueRange(data, period + 1, Len(data))), DInt(period))

\* Math.max(...highs) and Math.min(...lows)
MaxHigh(data) ==
    CHOOSE h \in {data[i].high : i \in 1..Len(data)} :
        \A i \in 1..Len(data) : data[i].high <= h

MinLow(data) ==
    CHOOSE l \in {data[i].low : i \in 1..Len(data)} :
        \A i \in 1..Len(data) : l <= data[i].low

\* the sum of the closes of the candles lo..hi
RECURSIVE SumCloses(_, _, _)
SumCloses(data, lo, hi) ==
    IF lo > hi THEN 0
    ELSE IF lo = hi THEN data[lo].close
    ELSE SumCloses(data, lo, (lo + hi) \div 2)
         + SumCloses(data, (lo + hi) \div 2 + 1, hi)

calculateSupportResistance(data) ==
    [resistance |-> DInt(MaxHigh(data)), support |-> DInt(MinLow(data))]

\* lines 142-143, from the three pivots
CprOf(pivotHigh, pivotLow, pivotClose) ==
    [cprTop    |-> DDiv(DAdd(DAdd(pivotHigh, pivotLow), pivotClose), DInt(3)),
     cprBottom |-> DDiv(DAdd(pivotHigh, pivotLow), DInt(2))]

calculateCPR(data) ==
    CprOf(DInt(MaxHigh(data)), DInt(MinLow(data)),
          DDiv(DInt(SumCloses(data, 1, Len(data))), DInt(Len(data))))

-----------------------------------------------------------------------------
(* Trailing stop (bot.js 162-169). *)

Half == Double(<<1, 2>>)

\* adjustTrailingStop with Math.max and Math.min exchanged
adjustTrailingStopSwapped(currentPrice, entryPrice, stopLoss, direction) ==
    IF direction = "BUY" /\ DGt(currentPrice, entryPrice)
    THEN DMin(stopLoss, DSub(currentPrice, DMul(DSub(currentPrice, entryPrice), Half)))
    ELSE IF direction = "SELL" /\ DLt(currentPrice, entryPrice)
    THEN DMax(stopLoss, DAdd(currentPrice, DMul(DSub(entryPrice, currentPrice), Half)))
    ELSE stopLoss

adjustTrailingStop(currentPrice, entryPrice, stopLoss, direction) ==
    IF direction = "BUY" /\ DGt(currentPrice, entryPrice)
    THEN DMax(stopLoss, DSub(currentPrice, DMul(DSub(currentPrice, entryPrice), Half)))
    ELSE IF direction = "SELL" /\ DLt(currentPrice, entryPrice)
    THEN DMin(stopLoss, DAdd(currentPrice, DMul(DSub(entryPrice, currentPrice), Half)))
    ELSE stopLoss

-----------------------------------------------------------------------------
(* The synchronous part of evaluateStrategy (bot.js 197-240): from the     *)
(* candles fetchKlines returned to the placeOrder call, if any.            *)

Snapshot(data) ==
    LET closes == Closes(data)
        sr     == calculateSupportResistance(data)
        cpr    == calculateCPR(data)
    IN  [atr          |-> calculateATR(data, AtrPeriod),
         emaShort     |-> Pop(calculateEMA(closes, EmaShortPeriod)),
         emaLong      |-> Pop(calculateEMA(closes, EmaLongPeriod)),
         rsi          |-> calculateRSI(closes, RsiPeriod),
         resistance   |-> sr.resistance,
         support      |-> sr.support,
         cprTop       |-> cpr.cprTop,
         cprBottom    |-> cpr.cprBottom,
         currentPrice |-> DInt(closes[Len(closes)])]

\* no indicator values: before evaluateStrategy has computed any
NoSnapshot == <<>>

riskAmount == DMul(DInt(AccountEquity), RISK_PER_TRADE)

positionSize(atr) == DMin(DDiv(riskAmount, atr), MAX_LOT_SIZE)

initialStopLoss(currentPrice, atr) == DSub(currentPrice, atr)

initialTakeProfit(currentPrice, atr) ==
    DAdd(currentPrice, DMul(DInt(2), atr))

riskToReward(currentPrice, stopLoss, takeProfit) ==
    DDiv(DSub(takeProfit, currentPrice), DSub(currentPrice, stopLoss))

\* the entry branches without their riskToReward >= 2 conjunct
RiskRewardIgnored(ratio) == TRUE

RiskRewardOk(ratio) == DGe(ratio, DInt(2))

LongCondition(s) ==
    /\ DGt(s.emaShort, s.emaLong)
    /\ DGt(s.rsi, DInt(50))
    /\ DGt(s.currentPrice, s.cprTop)
    /\ DGt(s.currentPrice, s.support)

\* the short branch as a copy of the long one with only the price
\* comparisons changed
ShortConditionCopied(s) ==
    /\ DGt(s.emaShort, s.emaLong)
    /\ DGt(s.rsi, DInt(50))
    /\ DLt(s.currentPrice, s.cprBottom)
    /\ DLt(s.currentPrice, s.resistance)

ShortCondition(s) ==
    /\ DLt(s.emaShort, s.emaLong)
    /\ DLt(s.rsi, DInt(50))
    /\ DLt(s.currentPrice, s.cprBottom)
    /\ DLt(s.currentPrice, s.resistance)

\* the entry branch taken (lines 215-240): "NONE" is the final else
EntrySide(ratio, long, short) ==
    IF RiskRewardOk(ratio) /\ long THEN "BUY"
    ELSE IF RiskRewardOk(ratio) /\ short THEN "SELL"
    ELSE "NONE"

\* What one cycle decides: the side of its placeOrder call ("NONE" when it
\* makes none), the arguments passed to it, and the values they come from.
Order(s, size, stopLoss, takeProfit, ratio, side) ==
    [currentPrice |-> s.currentPrice,
     atr          |-> s.atr,
     rsi          |-> s.rsi,
     quantity     |-> size,
     takeProfit   |-> takeProfit,
     riskToReward |-> ratio,
     side         |-> side,
     stopLoss     |-> IF side = "NONE" THEN stopLoss
                      ELSE adjustTrailingStop(s.currentPrice, s.currentPrice,
                                              stopLoss, side)]

\* lines 215-240, from the size, the stop, the target and the ratio
DecideWith(s, size, stopLoss, takeProfit, ratio) ==
    Order(s, size, stopLoss, takeProfit, ratio,
          EntrySide(ratio, LongCondition(s), ShortCondition(s)))

\* lines 207-240, from the stop and the target of lines 210-211
Decide(s, price, atr, stopLoss, takeProfit) ==
    DecideWith(s, positionSize(atr), stopLoss, takeProfit,
               riskToReward(price, stopLoss, takeProfit))

\* lines 207-240, from the price and the ATR
DecideAt(s, price, atr) ==
    Decide(s, price, atr, initialStopLoss(price, atr),
           initialTakeProfit(price, atr))

\* lines 207-240, from the indicator values of lines 197-205
DecideOn(s) == DecideAt(s, s.currentPrice, s.atr)

Decision(data) == DecideOn(Snapshot(data))

-----------------------------------------------------------------------------
(* The candle windows the exchange may return: at most KlinesLimit         *)
(* candles, fewer when the instrument's history is shorter.                *)
(*                                                                         *)
(* A progression window of n candles opens at BasePrice, moves by `first`  *)
(* on its second candle and by `step` on every later one; each candle's    *)
(* high and low lie `spread` above and below its close.  With a step or a  *)
(* spread that is a multiple of 7 the ATR (a sum of true ranges over 14)   *)
(* is a multiple of 1/2 and the arithmetic of bot.js 207-212 on it is      *)
(* exact; with a step of 50 or 100 the ATR is not a double and the stop,   *)
(* the target and the ratio are rounded, the ratio to just above 2 (step   *)
(* 50) or just below (step 100).                                           *)
(*                                                                         *)
(* A series window has the closes of one of NearCrossCloses and no spread: *)
(* 30 candles on which the two EMAs come closer to each other than the     *)
(* roundings of calculateEMA add up to, so that `emaShort > emaLong` is    *)
(* decided by those roundings.                                             *)

BasePrice == 60000

WindowLengths == {13, 16, 30}

FirstMoves == {-100, 100}

Steps == {-1820, -105, -100, -50, 0, 50, 100, 105, 1820}

Spreads == {0, 42}

NearCrossCloses ==
    << <<60000, 60056, 60080, 60116, 60143, 60194, 60242, 60292, 60336, 60369,
         60395, 60446, 60467, 60511, 60454, 60388, 60295, 60236, 60195, 60125,
         60072, 60022, 59954, 60013, 58957, 59823, 59845, 60304, 60346, 60389>>,
       <<60000, 60056, 60080, 60116, 60143, 60194, 60242, 60292, 60336, 60369,
         60395, 60446, 60467, 60511, 60454, 60372, 60304, 60237, 60211, 60124,
         60075, 60010, 59941, 60013, 58957, 59823, 59845, 60304, 60346, 60389>>,
       <<60000, 60056, 60080, 60116, 60143, 60194, 60242, 60292, 60336, 60369,
         60395, 60446, 60467, 60511, 60454, 60374, 60306, 60240, 60209, 60111,
         60073, 60018, 59952, 60013, 58957, 59823, 59845, 60304, 60346, 60389>> >>

ProgressionWindows ==
    [n : {n \in WindowLengths : n <= KlinesLimit},
     first : FirstMoves, step : Steps, spread : Spreads]

SeriesWindows == [series : DOMAIN NearCrossCloses]

Windows == ProgressionWindows \cup SeriesWindows

IsSeries(w) == "series" \in DOMAIN w

WindowLength(w) == IF IsSeries(w) THEN Len(NearCrossCloses[w.series]) ELSE w.n

WindowSpread(w) == IF IsSeries(w) THEN 0 ELSE w.spread

CloseAt(w, i) ==
    IF IsSeries(w) THEN NearCrossCloses[w.series][i]
    ELSE IF i = 1 THEN BasePrice
    ELSE BasePrice + w.first + (i - 2) * w.step

Klines(w) ==
    [i \in 1..WindowLength(w) |->
        [close |-> CloseAt(w, i),
         high  |-> CloseAt(w, i) + WindowSpread(w),
         low   |-> CloseAt(w, i) - WindowSpread(w)]]

\* every window's decision, as an explicit table (@@ builds the table, so
\* that each decision is computed once)
Decisions == [w \in Windows |-> Decision(Klines(w))] @@ <<>>

-----------------------------------------------------------------------------
(* Bounds of the model *)

MaxCycles == 3

\* synchronizeServerTime calls and retry timers outstanding at once
MaxSyncs == 2

MaxAccountLoss == 12

\* a loss realized on the account by one closed position
LossAmounts == {6}

\* values of serverTime - localTime (bot.js line 63)
Offsets == {-250, 250}

Cycles == 1..MaxCycles

-----------------------------------------------------------------------------
(* placeOrder (bot.js 172-191) *)

\* the module-level bindings of bot.js (lines 1-20)
ModuleBindings ==
    {"axios", "crypto", "BASE_URL", "API_KEY", "API_SECRET", "LEVERAGE",
     "RISK_PER_TRADE", "MAX_LOT_SIZE", "DAILY_RISK_CAP", "SYMBOL", "INTERVAL",
     "TELEGRAM_BOT_TOKEN", "TELEGRAM_CHAT_ID", "serverTimeOffset", "dailyLoss"}

\* reading a free identifier of a function body succeeds
Resolves(identifier) == identifier \in ModuleBindings

\* One call of placeOrder.  Line 173 reads assetPrecision outside the try
\* block: when that read fails the call throws a ReferenceError before any
\* request is built.  Otherwise the try block sends one POST /fapi/v1/order,
\* and the catch block swallows its failure: the call returns either way.
placeOrder(side, quantity) ==
    IF ~Resolves("assetPrecision")
    THEN [threw |-> TRUE, requests |-> 0]
    ELSE [threw |-> FALSE, requests |-> 1]

-----------------------------------------------------------------------------
(* The main async function (bot.js 244-264) and the timers *)

\* the cap on the day's loss: DAILY_RISK_CAP of the account equity
DailyLossCap == FMul(DAILY_RISK_CAP, Num(AccountEquity))

\* where the loop stands once it has called evaluateStrategy without await
MainAfterCallNoAwait == "sleeping"

\* where the loop stands once it has called evaluateStrategy (line 256: await)
MainAfterCall == "awaitEval"

Init ==
    /\ script \in {"bot.js", "part_000"}
    /\ mainPc = "load"
    /\ cycle = 0
    /\ evalPc = [c \in Cycles |-> "idle"]
    /\ overCapAtStart = FALSE
    /\ intents = <<>>
    /\ orderRequests = 0
    /\ accountLoss = 0
    /\ dailyLoss = 0
    /\ serverTimeOffset = 0
    /\ hourlyTimer = FALSE
    /\ syncsInFlight = 0
    /\ syncsNotifying = 0
    /\ retryTimers = 0
    /\ tDirection = "NONE"
    /\ tEntry = 0
    /\ tStop = 0
    /\ tPrevStop = 0
    /\ tPrice = 0
    /\ tUpdates = 0
    /\ eSnapshot = NoSnapshot
    /\ eLong = FALSE
    /\ eShort = FALSE
    /\ eEvaluated = FALSE

\* node bot.js: the module body runs up to the await of line 247
Load ==
    /\ script = "bot.js"
    /\ mainPc = "load"
    /\ mainPc' = "syncing"
    /\ UNCHANGED <<script, cycle, evalPc, overCapAtStart, intents, orderRequests,
                   accountLoss, dailyLoss, serverTimeOffset, hourlyTimer,
                   syncsInFlight, syncsNotifying, retryTimers, trailVars, entryVars>>

\* node part_000: the file does not parse, nothing runs
LoadFails ==
    /\ script = "part_000"
    /\ mainPc = "load"
    /\ mainPc' = "syntaxError"
    /\ UNCHANGED <<script, cycle, evalPc, overCapAtStart, intents, orderRequests,
                   accountLoss, dailyLoss, serverTimeOffset, hourlyTimer,
                   syncsInFlight, syncsNotifying, retryTimers, trailVars, entryVars>>

\* evaluateStrategy() is called and runs up to the await of fetchKlines
CallEvaluateStrategy ==
    /\ cycle' = cycle + 1
    /\ evalPc' = [evalPc EXCEPT ![cycle + 1] = "fetching"]
    /\ overCapAtStart' = FGt(Num(accountLoss), DailyLossCap)
    /\ mainPc' = MainAfterCall

\* the startup synchronizeServerTime succeeds; the main function registers
\* the hourly timer and enters the loop
StartupSyncOk(offset) ==
    /\ mainPc = "syncing"
    /\ serverTimeOffset' = offset
    /\ hourlyTimer' = TRUE
    /\ CallEvaluateStrategy
    /\ UNCHANGED <<script, intents, orderRequests, accountLoss, dailyLoss,
                   syncsInFlight, syncsNotifying, retryTimers, trailVars, entryVars>>

\* the startup synchronizeServerTime fails: its catch block awaits Telegram
StartupSyncFails ==
    /\ mainPc = "syncing"
    /\ mainPc' = "syncNotifying"
    /\ UNCHANGED <<script, cycle, evalPc, overCapAtStart, intents, orderRequests,
                   accountLoss, dailyLoss, serverTimeOffset, hourlyTimer,
                   syncsInFlight, syncsNotifying, retryTimers, trailVars, entryVars>>

\* the catch block arms the 5 s retry and returns; the main function
\* registers the hourly timer and enters the loop
StartupSyncNotified ==
    /\ mainPc = "syncNotifying"
    /\ retryTimers' = retryTimers + 1
    /\ hourlyTimer' = TRUE
    /\ CallEvaluateStrategy
    /\ UNCHANGED <<script, intents, orderRequests, accountLoss, dailyLoss,
                   serverTimeOffset, syncsInFlight, syncsNotifying, trailVars, entryVars>>

\* synchronizeServerTime calls and retry timers outstanding
SyncLoad == syncsInFlight + syncsNotifying + retryTimers

\* the hourly setInterval callback fires and calls synchronizeServerTime
HourlyTimerFires ==
    /\ hourlyTimer
    /\ SyncLoad < MaxSyncs
    /\ syncsInFlight' = syncsInFlight + 1
    /\ UNCHANGED <<script, mainPc, cycle, evalPc, overCapAtStart, intents,
                   orderRequests, accountLoss, dailyLoss, serverTimeOffset,
                   hourlyTimer, syncsNotifying, retryTimers, trailVars, entryVars>>

\* a 5 s retry timer fires and calls synchronizeServerTime
RetryTimerFires ==
    /\ retryTimers > 0
    /\ retryTimers' = retryTimers - 1
    /\ syncsInFlight' = syncsInFlight + 1
    /\ UNCHANGED <<script, mainPc, cycle, evalPc, overCapAtStart, intents,
                   orderRequests, accountLoss, dailyLoss, serverTimeOffset,
                   hourlyTimer, syncsNotifying, trailVars, entryVars>>

\* /fapi/v1/time answers a timer-started synchronizeServerTime
SyncOk(offset) ==
    /\ syncsInFlight > 0
    /\ syncsInFlight' = syncsInFlight - 1
    /\ serverTimeOffset' = offset
    /\ UNCHANGED <<script, mainPc, cycle, evalPc, overCapAtStart, intents,
                   orderRequests, accountLoss, dailyLoss, hourlyTimer,
                   syncsNotifying, retryTimers, trailVars, entryVars>>

\* the request of a timer-started synchronizeServerTime fails
SyncFails ==
    /\ syncsInFlight > 0
    /\ syncsInFlight' = syncsInFlight - 1
    /\ syncsNotifying' = syncsNotifying + 1
    /\ UNCHANGED <<script, mainPc, cycle, evalPc, overCapAtStart, intents,
                   orderRequests, accountLoss, dailyLoss, serverTimeOffset,
                   hourlyTimer, retryTimers, trailVars, entryVars>>

\* its catch block has sent the Telegram message and arms the 5 s retry
SyncNotified ==
    /\ syncsNotifying > 0
    /\ syncsNotifying' = syncsNotifying - 1
    /\ retryTimers' = retryTimers + 1
    /\ UNCHANGED <<script, mainPc, cycle, evalPc, overCapAtStart, intents,
                   orderRequests, accountLoss, dailyLoss, serverTimeOffset,
                   hourlyTimer, syncsInFlight, trailVars, entryVars>>

\* The main loop once the evaluateStrategy call it awaits has settled: the
\* 3 minute sleep when it returned, the catch of line 260 when it threw.
\* A call the loop is not awaiting settles without moving the loop.
MainResumes(threw) ==
    IF mainPc # "awaitEval" THEN mainPc
    ELSE IF threw THEN "critical"
    ELSE "sleeping"

\* The placeOrder call of a cycle that decided d on window w
Intent(c, w, d) ==
    [cycle      |-> c,
     window     |-> w,
     side       |-> d.side,
     quantity   |-> d.quantity,
     stopLoss   |-> d.stopLoss,
     takeProfit |-> d.takeProfit,
     overCap    |-> overCapAtStart,
     lossSoFar  |-> accountLoss]

\* cycle c makes the placeOrder call of decision d, with the given outcome
CallPlaceOrder(c, w, d, outcome) ==
    /\ intents' = Append(intents, Intent(c, w, d))
    /\ orderRequests' = orderRequests + outcome.requests
    /\ evalPc' = [evalPc EXCEPT ![c] = IF outcome.threw THEN "threw" ELSE "done"]
    /\ mainPc' = MainResumes(outcome.threw)

\* cycle c runs from the candles to its end with decision d
RunCycle(c, w, d) ==
    IF d.side = "NONE"
    THEN /\ evalPc' = [evalPc EXCEPT ![c] = "done"]
         /\ mainPc' = MainResumes(FALSE)
         /\ UNCHANGED <<intents, orderRequests>>
    ELSE CallPlaceOrder(c, w, d, placeOrder(d.side, d.quantity))

\* fetchKlines returns window w to cycle c, which runs to its end: the
\* indicators, the entry branches, the placeOrder call and its outcome
KlinesResponse(c, w) ==
    /\ evalPc[c] = "fetching"
    /\ RunCycle(c, w, Decisions[w])
    /\ UNCHANGED <<script, cycle, overCapAtStart, accountLoss, dailyLoss,
                   serverTimeOffset, hourlyTimer, syncsInFlight, syncsNotifying,
                   retryTimers, trailVars, entryVars>>

\* the klines request of cycle c fails: the catch block of binanceRequest
\* awaits sendTelegramMessage
KlinesError(c) ==
    /\ evalPc[c] = "fetching"
    /\ evalPc' = [evalPc EXCEPT ![c] = "notifying"]
    /\ UNCHANGED <<script, mainPc, cycle, overCapAtStart, intents, orderRequests,
                   accountLoss, dailyLoss, serverTimeOffset, hourlyTimer,
                   syncsInFlight, syncsNotifying, retryTimers, trailVars, entryVars>>

\* binanceRequest rethrows (line 45): fetchKlines and evaluateStrategy reject
ApiErrorNotified(c) ==
    /\ evalPc[c] = "notifying"
    /\ evalPc' = [evalPc EXCEPT ![c] = "threw"]
    /\ mainPc' = MainResumes(TRUE)
    /\ UNCHANGED <<script, cycle, overCapAtStart, intents, orderRequests,
                   accountLoss, dailyLoss, serverTimeOffset, hourlyTimer,
                   syncsInFlight, syncsNotifying, retryTimers, trailVars, entryVars>>

\* the 3 minute timer of line 258 fires: the next iteration of the loop
Wake ==
    /\ mainPc = "sleeping"
    /\ cycle < MaxCycles
    /\ CallEvaluateStrategy
    /\ UNCHANGED <<script, intents, orderRequests, accountLoss, dailyLoss,
                   serverTimeOffset, hourlyTimer, syncsInFlight, syncsNotifying,
                   retryTimers, trailVars, entryVars>>

\* the exchange closes a losing position of the account
RealizeLoss(amount) ==
    /\ accountLoss + amount <= MaxAccountLoss
    /\ accountLoss' = accountLoss + amount
    /\ UNCHANGED <<script, mainPc, cycle, evalPc, overCapAtStart, intents,
                   orderRequests, dailyLoss, serverTimeOffset, hourlyTimer,
                   syncsInFlight, syncsNotifying, retryTimers, trailVars, entryVars>>

Next ==
    \/ Load
    \/ LoadFails
    \/ \E offset \in Offsets : StartupSyncOk(offset)
    \/ StartupSyncFails
    \/ StartupSyncNotified
    \/ HourlyTimerFires
    \/ RetryTimerFires
    \/ \E offset \in Offsets : SyncOk(offset)
    \/ SyncFails
    \/ SyncNotified
    \/ \E c \in Cycles, w \in Windows : KlinesResponse(c, w)
    \/ \E c \in Cycles : KlinesError(c)
    \/ \E c \in Cycles : ApiErrorNotified(c)
    \/ Wake
    \/ \E amount \in LossAmounts : RealizeLoss(amount)

Spec == Init /\ [][Next]_vars

-----------------------------------------------------------------------------
(* A run of the bot that follows an earlier run on the same account.  A    *)
(* run whose main function has ended in the catch of line 260 makes no     *)
(* further cycle; the next cycles are those of the next run of node        *)
(* bot.js.  The earlier run is a behaviour of Spec: its first cycle made   *)
(* an entry, the placeOrder call threw and the main loop ended.            *)

\* the windows on which the earlier run made its entry: one on which the
\* Long condition holds and one on which the Short condition holds
EarlierEntryWindows ==
    {[n |-> 30, first |-> -100, step |-> 105, spread |-> 0],
     [n |-> 16, first |-> -100, step |-> -105, spread |-> 0]}

\* node is started again, on either file: the module state is that of a
\* new process, the exchange account and what the earlier run of bot.js did
\* are as that run left them.  Cycles keep their numbers across the runs.
RestartInit ==
    /\ script \in {"bot.js", "part_000"}
    /\ mainPc = "load"
    /\ cycle = 1
    /\ evalPc = [c \in Cycles |-> IF c = 1 THEN "threw" ELSE "idle"]
    /\ overCapAtStart = FALSE
    /\ accountLoss = 0
    /\ \E w \in EarlierEntryWindows : intents = <<Intent(1, w, Decisions[w])>>
    /\ orderRequests = 0
    /\ dailyLoss = 0
    /\ serverTimeOffset = 0
    /\ hourlyTimer = FALSE
    /\ syncsInFlight = 0
    /\ syncsNotifying = 0
    /\ retryTimers = 0
    /\ tDirection = "NONE"
    /\ tEntry = 0
    /\ tStop = 0
    /\ tPrevStop = 0
    /\ tPrice = 0
    /\ tUpdates = 0
    /\ eSnapshot = NoSnapshot
    /\ eLong = FALSE
    /\ eShort = FALSE
    /\ eEvaluated = FALSE

RestartSpec == RestartInit /\ [][Next]_vars

-----------------------------------------------------------------------------
(* Properties of the bot.  An order intent is a placeOrder call made by    *)
(* evaluateStrategy; an order request is a POST /fapi/v1/order sent by     *)
(* placeOrder.                                                             *)

IntentIndexes == 1..Len(intents)

\* the smallest lot (part_000 lines 238 and 265)
MinLot == Double(<<1, 1000>>)

\* the minimum risk/reward ratio for an ATR (part_000 line 270)
MinRiskToReward(atr) == IF DGt(atr, DInt(500)) THEN Double(<<3, 2>>) ELSE DInt(2)

\* calculateRSI's avgLoss on the closes of window w
SeedAverageLoss(w) ==
    DDiv(Double(RsiSum(Closes(Klines(w)), 2, 2, RsiPeriod)), DInt(RsiPeriod))

\* every indicator has its lookback on window w and the RSI seed has a loss
IndicatorsDefined(w) ==
    /\ WindowLength(w) >= EmaLongPeriod
    /\ WindowLength(w) >= RsiPeriod
    /\ WindowLength(w) > 2 * AtrPeriod
    /\ ~DIsZero(SeedAverageLoss(w))

\* C1: a cycle that starts while the day's loss exceeds the daily risk cap
\* makes no order intent.
C1_DailyRiskGate ==
    \A i \in IntentIndexes : ~intents[i].overCap

C3_PositionSizeBound ==
    \A i \in IntentIndexes :
        /\ DGe(intents[i].quantity, MinLot)
        /\ DLe(intents[i].quantity, MAX_LOT_SIZE)

\* whether, for the order decided on window w, the distance from the price
\* to the target over the distance from the price to the stop is at least
\* the minimum ratio for the window's ATR; one table for all windows, so
\* that the division is made once for each
RatioMeetsMinimum ==
    [w \in Windows |->
        DGe(riskToReward(Decisions[w].currentPrice,
                         Decisions[w].stopLoss, Decisions[w].takeProfit),
            MinRiskToReward(Decisions[w].atr))] @@ <<>>

\* C4: for every order intent, the distance from the price to its target
\* over the distance from the price to its stop is at least the minimum
\* ratio: 2 when the ATR is at most 500, 1.5 when it is above.
C4_RiskRewardGate ==
    \A i \in IntentIndexes :
        /\ intents[i].stopLoss = Decisions[intents[i].window].stopLoss
        /\ intents[i].takeProfit = Decisions[intents[i].window].takeProfit
        /\ RatioMeetsMinimum[intents[i].window]

\* C4 witness: an order intent made on a window whose ATR is above 500
C4_Witness_IntentAtHighAtr ==
    /\ Len(intents) = 1
    /\ DGt(Decisions[intents[1].window].atr, DInt(500))
    /\ intents[1].stopLoss # intents[1].takeProfit

\* C5: a BUY intent has stopLoss < currentPrice < takeProfit and a SELL
\* intent has takeProfit < currentPrice < stopLoss.
C5_StopTargetOrientation ==
    \A i \in IntentIndexes :
        LET price == Decisions[intents[i].window].currentPrice
        IN  /\ intents[i].side = "BUY" =>
                  /\ DLt(intents[i].stopLoss, price)
                  /\ DLt(price, intents[i].takeProfit)
            /\ intents[i].side = "SELL" =>
                  /\ DLt(intents[i].takeProfit, price)
                  /\ DLt(price, intents[i].stopLoss)

\* C7: no cycle that ends in an error stops the main loop.
C7_CycleErrorsNotFatal ==
    (\E c \in Cycles : evalPc[c] = "threw") => mainPc # "critical"

\* C8: at most one evaluateStrategy call is in progress, and a cycle starts
\* its fetch only after the cycle before it has returned or thrown.
C8_NoOverlappingCycles ==
    /\ Cardinality({c \in Cycles : evalPc[c] \in {"fetching", "notifying"}}) <= 1
    /\ \A c \in Cycles :
          (c > 1 /\ evalPc[c] # "idle") => evalPc[c - 1] \in {"done", "threw"}

\* C8 witness: the second cycle awaits its candles while a timer-started
\* synchronizeServerTime is in flight and a retry timer is pending
C8_Witness_CycleAmongTimers ==
    /\ cycle = 2
    /\ evalPc[2] = "fetching"
    /\ syncsInFlight > 0
    /\ retryTimers > 0

\* C9: no order intent is made on a window for which an indicator is
\* undefined (too few candles, or a zero RSI average loss).
C9_UndefinedIndicatorsStopCycle ==
    \A i \in IntentIndexes : IndicatorsDefined(intents[i].window)

\* C10: placeOrder has sent exactly one order request for every order
\* intent and has not thrown to evaluateStrategy.
C10_OneRequestNoThrow ==
    /\ orderRequests = Len(intents)
    /\ \A i \in IntentIndexes : evalPc[intents[i].cycle] # "threw"

-----------------------------------------------------------------------------
(* adjustTrailingStop (bot.js 162-169) applied to the price updates of one *)
(* open position: the stop it returns is the stop of the next update.      *)

MaxTrailUpdates == 3

TrailPrices == {96, 99, 100, 101, 106}

TrailInit ==
    /\ script = "bot.js"
    /\ mainPc = "load"
    /\ cycle = 0
    /\ evalPc = [c \in Cycles |-> "idle"]
    /\ overCapAtStart = FALSE
    /\ intents = <<>>
    /\ orderRequests = 0
    /\ accountLoss = 0
    /\ dailyLoss = 0
    /\ serverTimeOffset = 0
    /\ hourlyTimer = FALSE
    /\ syncsInFlight = 0
    /\ syncsNotifying = 0
    /\ retryTimers = 0
    /\ tDirection \in {"BUY", "SELL"}
    /\ tEntry \in {DInt(p) : p \in TrailPrices}
    /\ tStop \in {DInt(p) : p \in TrailPrices}
    /\ tPrevStop = tStop
    /\ tPrice = tEntry
    /\ tUpdates = 0
    /\ eSnapshot = NoSnapshot
    /\ eLong = FALSE
    /\ eShort = FALSE
    /\ eEvaluated = FALSE

\* the market moves to price and the stop is adjusted
TrailUpdate(price) ==
    /\ tUpdates < MaxTrailUpdates
    /\ tPrice' = DInt(price)
    /\ tPrevStop' = tStop
    /\ tStop' = adjustTrailingStop(DInt(price), tEntry, tStop, tDirection)
    /\ tUpdates' = tUpdates + 1
    /\ UNCHANGED <<tDirection, tEntry, botVars, entryVars>>

TrailNext == \E price \in TrailPrices : TrailUpdate(price)

TrailSpec == TrailInit /\ [][TrailNext]_vars

\* C6: the stop adjustTrailingStop returns is never looser than the stop it
\* was given (not below it for BUY, not above it for SELL), and is that stop
\* itself when the price is not on the profitable side of the entry; so
\* along the updates of a position the stop of a long never decreases and
\* the stop of a short never increases.
C6_TrailingStopNeverLoosens ==
    tUpdates > 0 =>
        /\ tDirection = "BUY" => DGe(tStop, tPrevStop)
        /\ tDirection = "SELL" => DLe(tStop, tPrevStop)
        /\ (tDirection = "BUY" /\ DLe(tPrice, tEntry)) => tStop = tPrevStop
        /\ (tDirection = "SELL" /\ DGe(tPrice, tEntry)) => tStop = tPrevStop

\* C6 witness: a long whose stop was raised by its second or a later update
C6_Witness_LongStopRaised ==
    /\ tDirection = "BUY"
    /\ tUpdates >= 2
    /\ DGt(tPrice, tEntry)
    /\ DGt(tStop, tPrevStop)

-----------------------------------------------------------------------------
(* The entry conditions of evaluateStrategy (bot.js 215-233) on indicator  *)
(* values drawn around one price: every order of the two EMAs, an RSI      *)
(* below, at and above 50 or NaN, and every position of the price relative *)
(* to the CPR band, the support and the resistance.                        *)

EntryPrice == 100

EntryEmas == {Double(<<k, 2>>) : k \in {199, 200, 201}}

EntryRsis == {DInt(40), DInt(50), DInt(60), DNaN}

EntryLevels == {DInt(99), DInt(101)}

EntrySnapshots ==
    [emaShort : EntryEmas, emaLong : EntryEmas, rsi : EntryRsis,
     currentPrice : {DInt(EntryPrice)},
     cprTop : EntryLevels, cprBottom : EntryLevels,
     support : EntryLevels, resistance : EntryLevels]

EntryInit ==
    /\ script = "bot.js"
    /\ mainPc = "load"
    /\ cycle = 0
    /\ evalPc = [c \in Cycles |-> "idle"]
    /\ overCapAtStart = FALSE
    /\ intents = <<>>
    /\ orderRequests = 0
    /\ accountLoss = 0
    /\ dailyLoss = 0
    /\ serverTimeOffset = 0
    /\ hourlyTimer = FALSE
    /\ syncsInFlight = 0
    /\ syncsNotifying = 0
    /\ retryTimers = 0
    /\ tDirection = "NONE"
    /\ tEntry = 0
    /\ tStop = 0
    /\ tPrevStop = 0
    /\ tPrice = 0
    /\ tUpdates = 0
    /\ eSnapshot \in EntrySnapshots
    /\ eLong = FALSE
    /\ eShort = FALSE
    /\ eEvaluated = FALSE

\* the two entry conditions are evaluated on the indicator values
EvaluateEntry ==
    /\ ~eEvaluated
    /\ eLong' = LongCondition(eSnapshot)
    /\ eShort' = ShortCondition(eSnapshot)
    /\ eEvaluated' = TRUE
    /\ UNCHANGED <<eSnapshot, botVars, trailVars>>

EntryNext == EvaluateEntry

EntrySpec == EntryInit /\ [][EntryNext]_vars

\* C11: on no indicator values do the Long condition and the Short
\* condition both hold, so a cycle has at most one entry to make.
C11_DecisionExclusivity ==
    eEvaluated => ~(eLong /\ eShort)

\* C11 witness: the Long condition holds on values whose price is also
\* below the CPR bottom and below the resistance, so that only the EMA and
\* RSI comparisons keep the Short condition from holding
C11_Witness_LongWithShortLevels ==
    /\ eEvaluated
    /\ eLong
    /\ DLt(eSnapshot.currentPrice, eSnapshot.cprBottom)
    /\ DLt(eSnapshot.currentPrice, eSnapshot.resistance)

=============================================================================
